---- MODULE Spec2Model ----
(***************************************************************************)
(* Model of vite-plugin-wasm-pack (src/src/index.ts): the registry built   *)
(* at plugin construction, the buildStart pass (wasm-pack, then the        *)
(* package.json patch), resolveId/load, the dev middleware and buildEnd.   *)
(*                                                                         *)
(* Strings are sequences of one-character strings, so that prefixes,       *)
(* basenames and concatenations are computed and not assumed.  An absolute *)
(* path is the sequence of its segments.                                   *)
(***************************************************************************)
EXTENDS Integers, Sequences, FiniteSets, TLC

\* ---------------------------------------------------------------- bounds
MaxCrates == 2
\* longest list of locations whose construction is followed entry by entry
MaxRegistered == 3

\* ------------------------------------------------------- string literals
prefix == <<"@","w","a","s","m","-","p","a","c","k","@">>
BgWasm == <<"_","b","g",".","w","a","s","m">>
DotWasm == <<".","w","a","s","m">>
DotJs == <<".","j","s">>
NodeModules == <<"n","o","d","e","_","m","o","d","u","l","e","s">>
DotNodeModules == <<".","/">> \o NodeModules
PackageJson == <<"p","a","c","k","a","g","e",".","j","s","o","n">>
AssetsDir == <<"a","s","s","e","t","s","/">>
Slash == "/"

\* process.cwd() of the host process, as path segments
Cwd == << <<"p">> >>

\* ------------------------------------------------------------ path module
\* s.split('/')
RECURSIVE SplitFrom(_, _, _)
SplitFrom(s, i, acc) ==
  IF i > Len(s) THEN <<acc>>
  ELSE IF s[i] = Slash THEN <<acc>> \o SplitFrom(s, i + 1, <<>>)
  ELSE SplitFrom(s, i + 1, Append(acc, s[i]))

Split(s) == SplitFrom(s, 1, <<>>)

\* normalisation of '.', '..' and empty segments on top of a base directory
RECURSIVE Normalize(_, _, _)
Normalize(base, segs, i) ==
  IF i > Len(segs) THEN base
  ELSE IF segs[i] = <<>> \/ segs[i] = <<".">> THEN Normalize(base, segs, i + 1)
  ELSE IF segs[i] = <<".", ".">>
       THEN Normalize(IF base = <<>> THEN <<>> ELSE SubSeq(base, 1, Len(base) - 1),
                      segs, i + 1)
  ELSE Normalize(Append(base, segs[i]), segs, i + 1)

\* path.resolve(p): absolute path of p, relative paths taken from process.cwd()
PathResolve(p) ==
  IF Len(p) > 0 /\ p[1] = Slash THEN Normalize(<<>>, Split(p), 1)
  ELSE Normalize(Cwd, Split(p), 1)

\* path.basename of an absolute path given by its segments
LastSegment(segs) == IF segs = <<>> THEN <<>> ELSE segs[Len(segs)]

\* path.basename(s) of a string: trailing slashes dropped, then the part after the last slash
RECURSIVE DropTrailingEmpty(_)
DropTrailingEmpty(segs) ==
  IF segs = <<>> THEN <<>>
  ELSE IF segs[Len(segs)] = <<>> THEN DropTrailingEmpty(SubSeq(segs, 1, Len(segs) - 1))
  ELSE segs

PathBasename(s) == LastSegment(DropTrailingEmpty(Split(s)))

\* path.resolve(a, b, ...) for relative arguments: joined on cwd and normalised
RECURSIVE JoinAll(_, _)
JoinAll(parts, i) ==
  IF i > Len(parts) THEN <<>>
  ELSE IF i = Len(parts) THEN parts[i]
  ELSE parts[i] \o <<Slash>> \o JoinAll(parts, i + 1)

PathResolveAll(parts) == PathResolve(JoinAll(parts, 1))

\* ---------------------------------------------------------- string tests
EndsWith(s, p) == Len(s) >= Len(p) /\ SubSeq(s, Len(s) - Len(p) + 1, Len(s)) = p

LowerChar(c) ==
  CASE c = "A" -> "a" [] c = "B" -> "b" [] c = "G" -> "g" [] c = "W" -> "w"
    [] c = "S" -> "s" [] c = "M" -> "m" [] OTHER -> c

toLowerCase(s) == [i \in 1..Len(s) |-> LowerChar(s[i])]

\* -------------------------------------------------------------- JS Map
\* a Map is the sequence of its <<key, value>> entries in insertion order
MapHas(m, k) == \E i \in 1..Len(m) : m[i][1] = k
MapIndex(m, k) == CHOOSE i \in 1..Len(m) : m[i][1] = k
\* a table that keeps the earlier entry of a key next to the later one
MapSetAppends(m, k, v) == Append(m, <<k, v>>)
MapSet(m, k, v) ==
  IF MapHas(m, k) THEN [m EXCEPT ![MapIndex(m, k)] = <<k, v>>]
  ELSE Append(m, <<k, v>>)
Undefined == [path |-> <<>>, name |-> <<"?">>, defined |-> FALSE]
MapGet(m, k) == IF MapHas(m, k) THEN m[MapIndex(m, k)][2] ELSE Undefined

\* ------------------------------------------------------------- registry
\* a crate name taken from the location string as written
CrateNameUnresolved(cratePath) == PathBasename(cratePath)

\* _crateName(cratePath)
CrateName(cratePath) == LastSegment(PathResolve(cratePath))

WasmFileOf(crateName) == crateName \o BgWasm

CrateInfo(crateName) ==
  [path |-> PathResolveAll(<<NodeModules, crateName, WasmFileOf(crateName)>>),
   name |-> crateName, defined |-> TRUE]

\* the cratePaths.forEach of the constructor, from entry i on
RECURSIVE Register(_, _, _)
Register(maps, paths, i) ==
  IF i > Len(paths) THEN maps
  ELSE LET crateName == CrateName(paths[i])
           wasmFile == WasmFileOf(crateName)
       IN Register([wasmMap |-> MapSet(maps.wasmMap, wasmFile, CrateInfo(crateName)),
                    cratePathLookup |-> MapSet(maps.cratePathLookup, paths[i], wasmFile),
                    crateNameLookup |-> MapSet(maps.crateNameLookup, crateName, wasmFile)],
                   paths, i + 1)

EmptyMaps == [wasmMap |-> <<>>, cratePathLookup |-> <<>>, crateNameLookup |-> <<>>]


\* ------------------------------------------------------------ the inputs
\* locations a caller may register: './a', 'x/a' (same derived name as './a') and 'b'
Locations == { <<".","/","a">>, <<"x","/","a">>, <<"b">> }

RECURSIVE ListsUpTo(_)
ListsUpTo(n) ==
  IF n = 0 THEN { <<>> }
  ELSE LET shorter == ListsUpTo(n - 1)
       IN shorter \cup { Append(l, x) : l \in { k \in shorter : Len(k) = n - 1 }, x \in Locations }

\* the constructor argument: one string, or a list of strings
CratesArgs ==
  { [isString |-> TRUE, value |-> x] : x \in Locations }
    \cup { [isString |-> FALSE, value |-> l] : l \in ListsUpTo(MaxCrates) }

\* const cratePaths = isString(crates) ? [crates] : crates
CratePathsOf(crates) == IF crates.isString THEN <<crates.value>> ELSE crates.value

\* ids handed to resolveId: 'a', 'b', 'c', 'a_bg.wasm', './a', '@wasm-pack@a'
ResolveIds == { <<"a">>, <<"b">>, <<"c">>, <<"a">> \o BgWasm, <<".","/","a">>, prefix \o <<"a">> }
\* ids handed to load: 'a', 'a@wasm-pack@', '@wasm-pack@a', '@wasm-pack@b', '@wasm-pack@c'
LoadIds ==
  { <<"a">>, <<"a">> \o prefix, prefix \o <<"a">>, prefix \o <<"b">>, prefix \o <<"c">> }

\* ------------------------------------------------------------- the disk
\* directories of the package cache that the model keeps track of
DirNames == { <<"a">>, <<"b">>, <<"c">> }
CacheRoot == PathResolveAll(<<NodeModules>>)

ManifestPath(dir) == Append(dir, PackageJson)
GluePath(dir) == Append(dir, LastSegment(dir) \o DotJs)
WasmPath(dir) == Append(dir, LastSegment(dir) \o BgWasm)

DiskPaths ==
  UNION { { ManifestPath(Append(CacheRoot, n)), GluePath(Append(CacheRoot, n)),
            WasmPath(Append(CacheRoot, n)) } : n \in DirNames }

\* a file: what it is, which source directory it was compiled from, and the
\* manifest's type field ("" when the field is absent)
File(kind, from, type) == [kind |-> kind, from |-> from, type |-> type]
Missing == File("missing", <<>>, "")
StaleDir == << <<"o","l","d">> >>

\* what a previous session may have left in the cache
StaleDisk ==
  [p \in DiskPaths |->
     IF LastSegment(p) = PackageJson THEN File("manifest", StaleDir, "module")
     ELSE IF EndsWith(LastSegment(p), DotJs) THEN File("js", StaleDir, "")
     ELSE File("wasm", StaleDir, "")]
EmptyDisk == [p \in DiskPaths |-> Missing]

\* fs.readFile / fs.readJson / fs.readFileSync
ReadFile(d, p) == IF p \in DOMAIN d THEN d[p] ELSE Missing

\* the package.json that the pinned wasm-pack writes has no type field
CompilerType == ""

\* ----------------------------------------------------------------- state
VARIABLES
  cratePaths,        \* the registered locations
  wasmMap,           \* artifact filename -> { path, name }
  cratePathLookup,   \* location -> artifact filename
  crateNameLookup,   \* crate name -> artifact filename
  registered,        \* how many entries of cratePaths the constructor's forEach has visited
  hostErrorThrows,   \* whether the host's this.error throws (Rollup, Vite) or returns
  disk,              \* the files of the package cache
  bs,                \* buildStart: "idle", "running", "resolved", "rejected"
  cur,               \* loop variable of buildStart (index into cratePaths)
  st,                \* per entry: its prepareBuild call's position
  pkgJson,           \* per entry: the manifest object held by prepareBuild
  execLog,           \* child processes started in this pass: cwd, outDir, entry
  warnings,          \* this.warn calls of this pass
  errors,            \* this.error calls of this pass
  writes,            \* files written in this pass: path, entry, writer
  config_base,       \* resolvedConfig.base as captured by configResolved
  config_assetsDir,  \* resolvedConfig.build.assetsDir as captured by configResolved
  last               \* the last resolveId / load / request / buildEnd call and its outcome

vars == << cratePaths, wasmMap, cratePathLookup, crateNameLookup, registered, hostErrorThrows,
           disk, bs, cur, st, pkgJson, execLog, warnings,
           errors, writes, config_base, config_assetsDir, last >>

registry == << cratePaths, wasmMap, cratePathLookup, crateNameLookup, registered,
              hostErrorThrows >>
buildVars == << bs, cur, st, pkgJson, execLog, warnings, errors, writes >>
configVars == << config_base, config_assetsDir >>

Entries == 1..Len(cratePaths)

NoResponse == [written |-> FALSE, status |-> 0, cacheControl |-> "", contentType |-> "",
               body |-> <<>>]
NoCall == [hook |-> "none", arg |-> <<>>, outcome |-> "none", value |-> <<>>,
           file |-> Missing, reads |-> {}, res |-> NoResponse, nextCalls |-> 0,
           emitted |-> <<>>]

Init ==
  /\ \E crates \in CratesArgs :
       /\ cratePaths = CratePathsOf(crates)
       /\ LET maps == Register(EmptyMaps, CratePathsOf(crates), 1)
          IN /\ wasmMap = maps.wasmMap
             /\ cratePathLookup = maps.cratePathLookup
             /\ crateNameLookup = maps.crateNameLookup
  /\ registered = Len(cratePaths)
  /\ hostErrorThrows \in BOOLEAN
  /\ disk \in { EmptyDisk, StaleDisk }
  /\ bs = "idle"
  /\ cur = 0
  /\ st = [i \in 1..Len(cratePaths) |-> "pending"]
  /\ pkgJson = [i \in 1..Len(cratePaths) |-> Missing]
  /\ execLog = <<>>
  /\ warnings = <<>>
  /\ errors = <<>>
  /\ writes = {}
  /\ config_base = "unset"
  /\ config_assetsDir = "unset"
  /\ last = NoCall


\* ------------------------------------------------------------ buildStart
\* const localPath = path.resolve('node_modules', crateName)
LocalPath(cratePath) == PathResolveAll(<<NodeModules, CrateName(cratePath)>>)

\* _runWasmPackBuild(cratePath, outDir): the child process that exec starts.
\* The command is "<wasm-pack> build --target web --out-dir <outDir>" and exec
\* is given no cwd, so wasm-pack builds the crate in the process's directory.
RunWasmPackBuild(cratePath, outDir) ==
  [crate |-> Cwd, target |-> "web", outDir |-> outDir]

\* the files a successful wasm-pack run leaves in its output directory
CompilerOutput(d, proc) ==
  [p \in DOMAIN d |->
     IF p = ManifestPath(proc.outDir) THEN File("manifest", proc.crate, CompilerType)
     ELSE IF p = GluePath(proc.outDir) THEN File("js", proc.crate, "")
     ELSE IF p = WasmPath(proc.outDir) THEN File("wasm", proc.crate, "")
     ELSE d[p]]

\* prepareBuild(cratePaths[i]) up to its first await: the child process is started
StartPrepareBuild(i, stNow) ==
  /\ cur' = i
  /\ st' = [stNow EXCEPT ![i] = "compiling"]
  /\ execLog' = Append(execLog,
                       [entry |-> i,
                        proc |-> RunWasmPackBuild(cratePaths[i], LocalPath(cratePaths[i]))])

\* a loop that skips an entry whose output directory was compiled earlier in the pass
LoopNextSkipsCompiled(i, stNow) ==
  LET todo == { j \in Entries :
                  /\ j > i
                  /\ \A k \in 1..Len(execLog) :
                       execLog[k].proc.outDir # LocalPath(cratePaths[j]) }
  IN IF todo # {}
     THEN /\ StartPrepareBuild(CHOOSE j \in todo : \A l \in todo : j <= l, stNow)
          /\ bs' = bs
     ELSE /\ bs' = "resolved"
          /\ cur' = cur
          /\ st' = stNow
          /\ execLog' = execLog

\* the for-await loop of buildStart after prepareBuild(cratePaths[i]) has returned
LoopNext(i, stNow) ==
  IF i < Len(cratePaths)
  THEN /\ StartPrepareBuild(i + 1, stNow)
       /\ bs' = bs
  ELSE /\ bs' = "resolved"
       /\ cur' = cur
       /\ st' = stNow
       /\ execLog' = execLog

\* a catch block that drops the error and goes on with the next entry
CatchSwallows(i, cause) ==
  /\ errors' = errors
  /\ LoopNext(i, [st EXCEPT ![i] = "failed"])

\* the catch block of prepareBuild: this.error(...), which the host may turn into a throw
Catch(i, cause) ==
  /\ errors' = Append(errors, [entry |-> i, crateName |-> CrateName(cratePaths[i]),
                                cause |-> cause])
  /\ IF hostErrorThrows
     THEN /\ bs' = "rejected"
          /\ st' = [st EXCEPT ![i] = "failed"]
          /\ UNCHANGED << cur, execLog >>
     ELSE LoopNext(i, [st EXCEPT ![i] = "failed"])

\* a buildStart that starts every prepareBuild at once (cratePaths.forEach, Promise.all)
BuildStartAllAtOnce ==
  /\ bs # "running"
  /\ pkgJson' = [i \in Entries |-> Missing]
  /\ warnings' = <<>>
  /\ errors' = <<>>
  /\ writes' = {}
  /\ bs' = IF Len(cratePaths) = 0 THEN "resolved" ELSE "running"
  /\ cur' = Len(cratePaths)
  /\ st' = [i \in Entries |-> "compiling"]
  /\ execLog' = [i \in Entries |->
                   [entry |-> i,
                    proc |-> RunWasmPackBuild(cratePaths[i], LocalPath(cratePaths[i]))]]
  /\ last' = NoCall
  /\ UNCHANGED << registry, disk, configVars >>

\* the host calls buildStart (again on every rebuild of a watching host)
BuildStart ==
  /\ bs # "running"
  /\ pkgJson' = [i \in Entries |-> Missing]
  /\ warnings' = <<>>
  /\ errors' = <<>>
  /\ writes' = {}
  /\ IF Len(cratePaths) = 0
     THEN /\ bs' = "resolved"
          /\ cur' = 0
          /\ st' = st
          /\ execLog' = <<>>
     ELSE /\ bs' = "running"
          /\ cur' = 1
          /\ st' = [[i \in Entries |-> "pending"] EXCEPT ![1] = "compiling"]
          /\ execLog' = << [entry |-> 1,
                            proc |-> RunWasmPackBuild(cratePaths[1], LocalPath(cratePaths[1]))] >>
  /\ last' = NoCall
  /\ UNCHANGED << registry, disk, configVars >>

\* the exec callback without error: resolve(stderr), then this.warn and fs.readJson is started
ExecResolve(i) ==
  /\ bs = "running"
  /\ st[i] = "compiling"
  /\ LET proc == RunWasmPackBuild(cratePaths[i], LocalPath(cratePaths[i]))
     IN /\ disk' = CompilerOutput(disk, proc)
        /\ writes' = writes \cup
             { [path |-> p, entry |-> i, by |-> "wasm-pack"] :
                 p \in { ManifestPath(proc.outDir), GluePath(proc.outDir), WasmPath(proc.outDir) } }
  /\ warnings' = Append(warnings, [entry |-> i, cratePath |-> cratePaths[i]])
  /\ st' = [st EXCEPT ![i] = "reading"]
  /\ UNCHANGED << registry, configVars, last, bs, cur, pkgJson, execLog, errors >>

\* a reject that is reported but not treated as the end of prepareBuild's try block
ExecRejectFallsThrough(i) ==
  /\ bs = "running"
  /\ st[i] = "compiling"
  /\ errors' = Append(errors, [entry |-> i, crateName |-> CrateName(cratePaths[i]),
                                cause |-> "wasm-pack"])
  /\ st' = [st EXCEPT ![i] = "reading"]
  /\ UNCHANGED << registry, disk, configVars, last, bs, cur, pkgJson, execLog, warnings, writes >>

\* the exec callback with an error: reject(...), caught by prepareBuild
ExecReject(i) ==
  /\ bs = "running"
  /\ st[i] = "compiling"
  /\ Catch(i, "wasm-pack")
  /\ UNCHANGED << registry, disk, configVars, last, pkgJson, warnings, writes >>

\* a patch that builds a new object with the type field alone
ReadJsonResolveDropsFields(i) ==
  /\ bs = "running"
  /\ st[i] = "reading"
  /\ ReadFile(disk, ManifestPath(LocalPath(cratePaths[i]))).kind = "manifest"
  /\ pkgJson' = [pkgJson EXCEPT ![i] = File("manifest", <<>>, "module")]
  /\ st' = [st EXCEPT ![i] = "writing"]
  /\ UNCHANGED << registry, disk, configVars, last, bs, cur, execLog,
                  warnings, errors, writes >>

\* fs.readJson(pkgJsonPath) resolves; pkgJson.type = 'module'; fs.writeJson is started
ReadJsonResolve(i) ==
  /\ bs = "running"
  /\ st[i] = "reading"
  /\ LET file == ReadFile(disk, ManifestPath(LocalPath(cratePaths[i])))
     IN /\ file.kind = "manifest"
        /\ pkgJson' = [pkgJson EXCEPT ![i] = [file EXCEPT !.type = "module"]]
  /\ st' = [st EXCEPT ![i] = "writing"]
  /\ UNCHANGED << registry, disk, configVars, last, bs, cur, execLog,
                  warnings, errors, writes >>

\* fs.readJson rejects (missing or unreadable manifest)
ReadJsonReject(i) ==
  /\ bs = "running"
  /\ st[i] = "reading"
  /\ Catch(i, "readJson")
  /\ UNCHANGED << registry, disk, configVars, last, pkgJson, warnings, writes >>

\* fs.writeJson(pkgJsonPath, pkgJson) resolves; prepareBuild returns
WriteJsonResolve(i) ==
  /\ bs = "running"
  /\ st[i] = "writing"
  /\ disk' = [disk EXCEPT ![ManifestPath(LocalPath(cratePaths[i]))] = pkgJson[i]]
  /\ writes' = writes \cup { [path |-> ManifestPath(LocalPath(cratePaths[i])), entry |-> i,
                               by |-> "writeJson"] }
  /\ LoopNext(i, [st EXCEPT ![i] = "done"])
  /\ UNCHANGED << registry, configVars, last, pkgJson, warnings, errors >>

\* fs.writeJson rejects
WriteJsonReject(i) ==
  /\ bs = "running"
  /\ st[i] = "writing"
  /\ Catch(i, "writeJson")
  /\ UNCHANGED << registry, disk, configVars, last, pkgJson, warnings, writes >>


\* ----------------------------------------------------- the host's ordering
\* No hook is called while buildStart is running.  resolveId is answered from
\* the registry alone and is asked before and after buildStart; load and dev
\* requests are issued once buildStart has returned; buildEnd is also called
\* (with the error) when buildStart has failed.  `last` holds the one call under
\* observation in a build cycle: the four hooks leave the rest of the state
\* alone, so a further call would start from the same plugin state.
Quiet == last.hook = "none"
ResolveIdAllowed == bs # "running" /\ Quiet
LoadAllowed == bs = "resolved" /\ Quiet
RequestAllowed == bs = "resolved" /\ Quiet
BuildEndAllowed == bs \in { "resolved", "rejected" } /\ Quiet

\* ---------------------------------------------------------- configResolved
Configs == { [base |-> "/", assetsDir |-> "assets"], [base |-> "/app/", assetsDir |-> "static"] }

ConfigResolved(resolvedConfig) ==
  /\ bs = "idle"
  /\ config_base' = resolvedConfig.base
  /\ config_assetsDir' = resolvedConfig.assetsDir
  /\ UNCHANGED << registry, disk, buildVars, last >>

\* ------------------------------------------------------- resolveId, load
\* s.indexOf(p): 0-based index of the first occurrence, -1 when there is none
IndexOf(s, p) ==
  LET hits == { i \in 1..(Len(s) - Len(p) + 1) : SubSeq(s, i, i + Len(p) - 1) = p }
  IN IF hits = {} THEN -1
     ELSE (CHOOSE i \in hits : \A j \in hits : i <= j) - 1

\* s.replace(p, ''): the first occurrence of p removed
ReplaceFirst(s, p) ==
  LET at == IndexOf(s, p)
  IN IF at = -1 THEN s
     ELSE SubSeq(s, 1, at) \o SubSeq(s, at + Len(p) + 1, Len(s))

\* a resolveId that looks the id up in the artifact table
ResolveIdByWasmFile(id) ==
  IF MapHas(wasmMap, id)
  THEN [NoCall EXCEPT !.hook = "resolveId", !.arg = id, !.outcome = "value",
                      !.value = prefix \o id]
  ELSE [NoCall EXCEPT !.hook = "resolveId", !.arg = id, !.outcome = "null"]

ResolveIdResult(id) ==
  IF MapHas(crateNameLookup, id)
  THEN [NoCall EXCEPT !.hook = "resolveId", !.arg = id, !.outcome = "value",
                      !.value = prefix \o id]
  ELSE [NoCall EXCEPT !.hook = "resolveId", !.arg = id, !.outcome = "null"]

\* a resolveId that remembers every id it was asked about
ResolveIdRegisters(id) ==
  /\ ResolveIdAllowed
  /\ last' = ResolveIdResult(id)
  /\ crateNameLookup' = MapSet(crateNameLookup, id, WasmFileOf(id))
  /\ UNCHANGED << cratePaths, wasmMap, cratePathLookup, registered, hostErrorThrows,
                  disk, buildVars, configVars >>

ResolveId(id) ==
  /\ ResolveIdAllowed
  /\ last' = ResolveIdResult(id)
  /\ UNCHANGED << registry, disk, buildVars, configVars >>

\* a glue-code path without the package's directory
ModuleJsFlat(id) == PathResolveAll(<<DotNodeModules, id \o DotJs>>)

\* path.join('./node_modules', id, id + '.js'), as fs resolves it
ModuleJs(id) == PathResolveAll(<<DotNodeModules, id, id \o DotJs>>)

LoadResult(id) ==
  IF IndexOf(id, prefix) = 0
  THEN LET stripped == ReplaceFirst(id, prefix)
           modulejs == ModuleJs(stripped)
           code == ReadFile(disk, modulejs)
       IN IF code.kind = "missing"
          THEN [NoCall EXCEPT !.hook = "load", !.arg = id, !.outcome = "threw",
                              !.reads = { modulejs }]
          ELSE [NoCall EXCEPT !.hook = "load", !.arg = id, !.outcome = "value",
                              !.file = code, !.reads = { modulejs }]
  ELSE [NoCall EXCEPT !.hook = "load", !.arg = id, !.outcome = "undefined"]

\* a load that answers only for the names resolveId knows
LoadRegisteredOnly(id) ==
  /\ LoadAllowed
  /\ last' = IF IndexOf(id, prefix) = 0 /\ ~MapHas(crateNameLookup, ReplaceFirst(id, prefix))
             THEN [NoCall EXCEPT !.hook = "load", !.arg = id, !.outcome = "undefined"]
             ELSE LoadResult(id)
  /\ UNCHANGED << registry, disk, buildVars, configVars >>

Load(id) ==
  /\ LoadAllowed
  /\ last' = LoadResult(id)
  /\ UNCHANGED << registry, disk, buildVars, configVars >>

\* ------------------------------------------------------- dev middleware
Str(s) == [isString |-> TRUE, value |-> s]
NoUrl == [isString |-> FALSE, value |-> <<>>]

\* request urls: '/a_bg.wasm', '/assets/b_bg.wasm', '/A_BG.WASM', '/a.js', '/'
Urls ==
  { Str(<<"/">> \o <<"a">> \o BgWasm),
    Str(<<"/","a","s","s","e","t","s","/","b">> \o BgWasm),
    Str(<<"/","A","_","B","G",".","W","A","S","M">>),
    Str(<<"/","a",".","j","s">>),
    Str(<<"/">>),
    NoUrl }

\* a middleware that streams the first registered artifact, whatever was asked for
MiddlewareServesFirst(url) ==
  IF url.isString
  THEN LET wasmFile == PathBasename(url.value)
           entry == MapGet(wasmMap, wasmFile)
       IN IF entry.defined /\ EndsWith(toLowerCase(wasmFile), DotWasm)
          THEN [NoCall EXCEPT !.hook = "request", !.arg = url.value, !.outcome = "responded",
                              !.res = [written |-> TRUE, status |-> 200,
                                       cacheControl |-> "no-cache, no-store, must-revalidate",
                                       contentType |-> "application/wasm",
                                       body |-> wasmMap[1][2].path],
                              !.reads = { wasmMap[1][2].path }]
          ELSE [NoCall EXCEPT !.hook = "request", !.arg = url.value, !.outcome = "next",
                              !.nextCalls = 1]
  ELSE [NoCall EXCEPT !.hook = "request", !.outcome = "returned"]

MiddlewareResult(url) ==
  IF url.isString
  THEN LET wasmFile == PathBasename(url.value)
           entry == MapGet(wasmMap, wasmFile)
       IN IF entry.defined /\ EndsWith(toLowerCase(wasmFile), DotWasm)
          THEN [NoCall EXCEPT !.hook = "request", !.arg = url.value, !.outcome = "responded",
                              !.res = [written |-> TRUE, status |-> 200,
                                       cacheControl |-> "no-cache, no-store, must-revalidate",
                                       contentType |-> "application/wasm",
                                       body |-> entry.path],
                              !.reads = { entry.path }]
          ELSE [NoCall EXCEPT !.hook = "request", !.arg = url.value, !.outcome = "next",
                              !.nextCalls = 1]
  ELSE [NoCall EXCEPT !.hook = "request", !.outcome = "returned"]

Request(url) ==
  /\ RequestAllowed
  /\ last' = MiddlewareResult(url)
  /\ UNCHANGED << registry, disk, buildVars, configVars >>

\* ------------------------------------------------------------- buildEnd
\* an emit loop that walks the registered locations instead of the artifact table
RECURSIVE EmitPerCratePath(_, _)
EmitPerCratePath(i, acc) ==
  IF i > Len(cratePaths) THEN [acc EXCEPT !.outcome = "returned"]
  ELSE LET fileName == MapGet(cratePathLookup, cratePaths[i])
           crate == MapGet(wasmMap, fileName)
           source == ReadFile(disk, crate.path)
           read == [acc EXCEPT !.reads = acc.reads \cup { crate.path }]
       IN IF source.kind = "missing"
          THEN [read EXCEPT !.outcome = "threw"]
          ELSE EmitPerCratePath(i + 1,
                        [read EXCEPT !.emitted =
                           Append(acc.emitted, [type |-> "asset",
                                                fileName |-> AssetsDir \o fileName,
                                                source |-> source])])

\* wasmMap.forEach from entry i on: readFileSync, then this.emitFile
RECURSIVE EmitFrom(_, _)
EmitFrom(i, acc) ==
  IF i > Len(wasmMap) THEN [acc EXCEPT !.outcome = "returned"]
  ELSE LET fileName == wasmMap[i][1]
           crate == wasmMap[i][2]
           source == ReadFile(disk, crate.path)
           read == [acc EXCEPT !.reads = acc.reads \cup { crate.path }]
       IN IF source.kind = "missing"
          THEN [read EXCEPT !.outcome = "threw"]
          ELSE EmitFrom(i + 1,
                        [read EXCEPT !.emitted =
                           Append(acc.emitted, [type |-> "asset",
                                                fileName |-> AssetsDir \o fileName,
                                                source |-> source])])

BuildEnd ==
  /\ BuildEndAllowed
  /\ last' = EmitFrom(1, [NoCall EXCEPT !.hook = "buildEnd"])
  /\ UNCHANGED << registry, disk, buildVars, configVars >>

\* ------------------------------------------------------------------ Next
Next ==
  \/ BuildStart
  \/ \E i \in Entries : ExecResolve(i)
  \/ \E i \in Entries : ExecReject(i)
  \/ \E i \in Entries : ReadJsonResolve(i)
  \/ \E i \in Entries : ReadJsonReject(i)
  \/ \E i \in Entries : WriteJsonResolve(i)
  \/ \E i \in Entries : WriteJsonReject(i)
  \/ \E c \in Configs : ConfigResolved(c)
  \/ \E id \in ResolveIds : ResolveId(id)
  \/ \E id \in LoadIds : Load(id)
  \/ \E url \in Urls : Request(url)
  \/ BuildEnd

Spec == Init /\ [][Next]_vars

\* ------------------------------------------- construction, entry by entry
\* locations whose names need path.resolve: './a', 'x/a', 'b', 'b/', '/r/a',
\* '.' (the working directory itself) and 'x/../b'
RegistryLocations ==
  { <<".","/","a">>, <<"x","/","a">>, <<"b">>, <<"b","/">>, <<"/","r","/","a">>,
    <<".">>, <<"x","/",".",".","/","b">> }

RECURSIVE RegistryLists(_)
RegistryLists(n) ==
  IF n = 0 THEN { <<>> }
  ELSE LET shorter == RegistryLists(n - 1)
       IN shorter \cup { Append(l, x) : l \in { k \in shorter : Len(k) = n - 1 },
                                         x \in RegistryLocations }

RegistryArgs ==
  { [isString |-> TRUE, value |-> x] : x \in RegistryLocations }
    \cup { [isString |-> FALSE, value |-> l] : l \in RegistryLists(MaxRegistered) }

\* the plugin function has computed cratePaths and created the three empty Maps
InitRegistry ==
  /\ \E crates \in RegistryArgs : cratePaths = CratePathsOf(crates)
  /\ wasmMap = EmptyMaps.wasmMap
  /\ cratePathLookup = EmptyMaps.cratePathLookup
  /\ crateNameLookup = EmptyMaps.crateNameLookup
  /\ registered = 0
  /\ hostErrorThrows = TRUE
  /\ disk = EmptyDisk
  /\ bs = "idle"
  /\ cur = 0
  /\ st = [i \in 1..Len(cratePaths) |-> "pending"]
  /\ pkgJson = [i \in 1..Len(cratePaths) |-> Missing]
  /\ execLog = <<>>
  /\ warnings = <<>>
  /\ errors = <<>>
  /\ writes = {}
  /\ config_base = "unset"
  /\ config_assetsDir = "unset"
  /\ last = NoCall

\* one call of the forEach callback, for entry registered + 1
RegisterNext ==
  /\ registered < Len(cratePaths)
  /\ LET maps == Register([wasmMap |-> wasmMap, cratePathLookup |-> cratePathLookup,
                           crateNameLookup |-> crateNameLookup],
                          SubSeq(cratePaths, 1, registered + 1), registered + 1)
     IN /\ wasmMap' = maps.wasmMap
        /\ cratePathLookup' = maps.cratePathLookup
        /\ crateNameLookup' = maps.crateNameLookup
  /\ registered' = registered + 1
  /\ UNCHANGED << cratePaths, hostErrorThrows, disk, buildVars, configVars, last >>

SpecRegistry == InitRegistry /\ [][RegisterNext]_vars

TypeOK ==
  /\ bs \in { "idle", "running", "resolved", "rejected" }
  /\ \A i \in Entries : st[i] \in { "pending", "compiling", "reading", "writing", "done", "failed" }


\* ================================================================ claims
StartsWith(s, p) == Len(s) >= Len(p) /\ SubSeq(s, 1, Len(p)) = p

\* what the pass has recorded about entry i
Started(i) == \E k \in 1..Len(execLog) : execLog[k].entry = i
CompileSucceeded(i) == \E k \in 1..Len(warnings) : warnings[k].entry = i
CompileFailed(i) == \E k \in 1..Len(errors) : errors[k].entry = i /\ errors[k].cause = "wasm-pack"
PatchFailed(i) ==
  \E k \in 1..Len(errors) : errors[k].entry = i /\ errors[k].cause \in { "readJson", "writeJson" }
ErrorsNaming(i) ==
  { k \in 1..Len(errors) : errors[k].entry = i /\ errors[k].crateName = CrateName(cratePaths[i]) }
Settled == bs \in { "resolved", "rejected" }

\* C1: every child process that buildStart starts builds the crate at the
\* registered location of its entry and writes to <cacheRoot>/<name>, so two
\* entries with distinct locations are compilations of two distinct sources.
C1_CompileTargetsLocation ==
  /\ \A k \in 1..Len(execLog) :
       /\ execLog[k].proc.crate = PathResolve(cratePaths[execLog[k].entry])
       /\ execLog[k].proc.outDir = Append(CacheRoot, CrateName(cratePaths[execLog[k].entry]))
  /\ \A k, l \in 1..Len(execLog) :
       PathResolve(cratePaths[execLog[k].entry]) # PathResolve(cratePaths[execLog[l].entry])
         => execLog[k].proc.crate # execLog[l].proc.crate

\* C2: when the compile or the manifest patch of entry i has failed, an error
\* naming entry i's package has been reported and, once the pass is over, the
\* compile of every later entry has been started in that pass.
C2_FailureIsolation ==
  \A i \in Entries :
    (CompileFailed(i) \/ PatchFailed(i)) =>
      /\ ErrorsNaming(i) # {}
      /\ Settled => \A j \in Entries : j > i => Started(j)

\* C3: when a compile has failed, buildStart still returns normally (it does
\* not reject), and on return exactly one error names each failing entry.
C3_ReturnsNormally ==
  (\E i \in Entries : CompileFailed(i)) =>
    /\ bs # "rejected"
    /\ bs = "resolved" => \A i \in Entries : CompileFailed(i) => Cardinality(ErrorsNaming(i)) = 1


\* the manifest of entry i's output directory, and what a patched one looks like
ManifestOf(i) == ReadFile(disk, ManifestPath(LocalPath(cratePaths[i])))
SameOutDir(i, j) == LocalPath(cratePaths[i]) = LocalPath(cratePaths[j])
PatchedManifest(i) ==
  [File("manifest", RunWasmPackBuild(cratePaths[i], LocalPath(cratePaths[i])).crate, CompilerType)
     EXCEPT !.type = "module"]

\* C4 (as stated): the manifest file of an entry whose compile failed has not
\* been written at all in that pass.
C4_ManifestUntouchedInPass ==
  \A i \in Entries :
    CompileFailed(i) =>
      \A w \in writes : w.path # ManifestPath(LocalPath(cratePaths[i]))

\* C4 (amended): the processing of an entry whose compile failed neither reads
\* nor writes the manifest; every manifest read or rewrite the plugin does is
\* for an entry whose own compile has resolved successfully before it.
C4_NoPatchOnFailurePath ==
  /\ \A i \in Entries :
       CompileFailed(i) =>
         /\ pkgJson[i] = Missing
         /\ st[i] \notin { "reading", "writing", "done" }
         /\ \A w \in writes : w.entry # i
  /\ \A i \in Entries : st[i] \in { "reading", "writing", "done" } => CompileSucceeded(i)
  /\ \A i \in Entries : pkgJson[i] # Missing => CompileSucceeded(i)
  /\ \A w \in writes : w.by = "writeJson" => CompileSucceeded(w.entry)

\* a pass in which one entry's compile failed after another entry was patched
C4_Witness ==
  \E i, j \in Entries :
    /\ CompileFailed(i) /\ st[i] = "failed"
    /\ st[j] = "done" /\ ~SameOutDir(i, j)
    /\ ManifestOf(j).type = "module"

\* C5 (as stated): once buildStart is over, every entry whose compile and patch
\* both succeeded has a manifest with type "module" and the compiler's other
\* fields, also after resolveId, load, a request or buildEnd has run.
C5_SucceededHasModuleType ==
  Settled => \A i \in Entries : st[i] = "done" => ManifestOf(i) = PatchedManifest(i)

\* C5 (amended): the same, for every such entry after which no entry with the
\* same output directory was processed in that pass.
C5_LastSucceededHasModuleType ==
  Settled =>
    \A i \in Entries :
      (st[i] = "done" /\ \A j \in Entries : (j > i /\ SameOutDir(i, j)) => st[j] = "pending")
        => ManifestOf(i) = PatchedManifest(i)

\* buildEnd has run after a pass in which an entry was compiled and patched
C5_Witness ==
  /\ bs = "resolved"
  /\ last.hook = "buildEnd"
  /\ \E i \in Entries : st[i] = "done" /\ ManifestOf(i).type = "module"

\* C6: at most one wasm-pack process is in flight, the entries are started in
\* registration order, and an entry is started only when every earlier entry
\* has finished (patched, or failed and reported).
C6_Serial ==
  /\ Cardinality({ i \in Entries : st[i] = "compiling" }) <= 1
  /\ \A k \in 1..Len(execLog) : execLog[k].entry = k
  /\ \A i \in Entries :
       st[i] # "pending" =>
         \A j \in Entries : j < i =>
           /\ st[j] \in { "done", "failed" }
           /\ st[j] = "failed" => ErrorsNaming(j) # {}

\* the second entry's compile is in flight after the first one was patched
C6_Witness ==
  /\ Len(cratePaths) >= 2
  /\ st[2] = "compiling"
  /\ st[1] = "done"


\* the entries whose artifact is expected at path p
EntriesAt(p) == { i \in Entries : CrateInfo(CrateName(cratePaths[i])).path = p }

\* C7: every disk path that the dev middleware streams or buildEnd reads
\* belongs to entries that buildStart has compiled and patched successfully.
C7_ConsumersReadBuiltOnly ==
  last.hook \in { "request", "buildEnd" } =>
    \A p \in last.reads : \A i \in EntriesAt(p) : st[i] = "done"

\* C8: resolveId(id) is prefix + id exactly when id is the derived name of a
\* registered location, and null otherwise, whatever buildStart has done.
C8_ResolveId ==
  last.hook = "resolveId" =>
    IF \E i \in Entries : CrateName(cratePaths[i]) = last.arg
    THEN last.outcome = "value" /\ last.value = prefix \o last.arg
    ELSE last.outcome = "null" /\ last.value = <<>>

\* a registered name is resolved after a pass in which its compile failed
C8_Witness ==
  /\ last.hook = "resolveId"
  /\ last.outcome = "value"
  /\ Settled
  /\ \E i \in Entries : CrateName(cratePaths[i]) = last.arg /\ CompileFailed(i)

\* C9: load of an id without the prefix returns undefined and reads nothing;
\* load(resolveId(n)) for a registered name n reads <cacheRoot>/n/n.js, returns
\* the file's current content, and throws when the file is missing.
C9_Load ==
  last.hook = "load" =>
    /\ ~StartsWith(last.arg, prefix) => (last.outcome = "undefined" /\ last.reads = {})
    /\ \A i \in Entries :
         LET n == CrateName(cratePaths[i])
             glue == Append(Append(CacheRoot, n), n \o DotJs)
         IN last.arg = ResolveIdResult(n).value =>
              /\ last.reads = { glue }
              /\ IF ReadFile(disk, glue).kind = "missing"
                 THEN last.outcome = "threw"
                 ELSE last.outcome = "value" /\ last.file = ReadFile(disk, glue)

\* the glue code of a registered, freshly compiled package has been loaded
C9_Witness ==
  /\ last.hook = "load"
  /\ last.outcome = "value"
  /\ last.file.from = Cwd
  /\ \E i \in Entries : last.arg = prefix \o CrateName(cratePaths[i])

\* C10: for every request the middleware either writes the response and does
\* not call next, or calls next once and writes nothing.
C10_RespondOrNext ==
  last.hook = "request" =>
    \/ last.res.written /\ last.nextCalls = 0
    \/ ~last.res.written /\ last.nextCalls = 1


\* the response the middleware is to give for entry i's artifact
ArtifactResponse(i) ==
  [written |-> TRUE, status |-> 200,
   cacheControl |-> "no-cache, no-store, must-revalidate",
   contentType |-> "application/wasm",
   body |-> Append(Append(CacheRoot, CrateName(cratePaths[i])),
                   CrateName(cratePaths[i]) \o BgWasm)]

\* C11 (as stated): a request whose path ends, compared case-insensitively, in
\* the artifact filename of a registered package is answered with status 200,
\* the no-cache header, application/wasm and that package's artifact as body.
C11_CaseInsensitiveMatch ==
  last.hook = "request" =>
    \A i \in Entries :
      EndsWith(toLowerCase(last.arg), toLowerCase(CrateName(cratePaths[i]) \o BgWasm))
        => last.res = ArtifactResponse(i) /\ last.nextCalls = 0

\* C11 (amended): the same for a request whose final path segment is exactly
\* (case-sensitively) the artifact filename of a registered package.
C11_ExactMatch ==
  last.hook = "request" =>
    \A i \in Entries :
      PathBasename(last.arg) = CrateName(cratePaths[i]) \o BgWasm
        => last.res = ArtifactResponse(i) /\ last.nextCalls = 0

\* the second of two registered packages has been served from under a directory
C11_Witness ==
  /\ last.hook = "request"
  /\ last.res.written
  /\ Len(wasmMap) = 2
  /\ last.res.body = wasmMap[2][2].path
  /\ PathBasename(last.arg) # SubSeq(last.arg, 2, Len(last.arg))


\* the asset buildEnd is to emit for entry i
AssetOf(i) ==
  [type |-> "asset",
   fileName |-> AssetsDir \o CrateName(cratePaths[i]) \o BgWasm,
   source |-> ReadFile(disk, Append(Append(CacheRoot, CrateName(cratePaths[i])),
                                    CrateName(cratePaths[i]) \o BgWasm))]
EmittedFor(i) == { k \in 1..Len(last.emitted) : last.emitted[k] = AssetOf(i) }
DerivedNames == { CrateName(cratePaths[i]) : i \in Entries }

\* C12 (as stated): a run of buildEnd that returns has emitted exactly one asset
\* per registered location, assets/<name>_bg.wasm with the bytes on disk, and
\* as many assets as there are registered locations.
C12_OneAssetPerEntry ==
  (last.hook = "buildEnd" /\ last.outcome = "returned") =>
    /\ \A i \in Entries : Cardinality(EmittedFor(i)) = 1
    /\ Len(last.emitted) = Len(cratePaths)

\* C12 (amended): as many assets as there are distinct derived names.
C12_OneAssetPerName ==
  (last.hook = "buildEnd" /\ last.outcome = "returned") =>
    /\ \A i \in Entries : Cardinality(EmittedFor(i)) = 1
    /\ Len(last.emitted) = Cardinality(DerivedNames)

\* buildEnd has emitted the one asset of two locations that share a derived name
C12_Witness ==
  /\ last.hook = "buildEnd"
  /\ last.outcome = "returned"
  /\ Len(cratePaths) = 2
  /\ cratePaths[1] # cratePaths[2]
  /\ Len(last.emitted) = 1
  /\ last.emitted[1].source.from = Cwd


\* C13: no failure is swallowed.  An entry whose compile or manifest patch has
\* failed is named by a call of the host's error hook, or buildStart has
\* rejected at that entry; a load or a buildEnd in which a file read has failed
\* has thrown.
C13_NoFailureSwallowed ==
  /\ \A i \in Entries :
       st[i] = "failed" =>
         \/ ErrorsNaming(i) # {}
         \/ bs = "rejected" /\ cur = i
  /\ last.hook \in { "load", "buildEnd" } =>
       ((\E p \in last.reads : ReadFile(disk, p).kind = "missing") => last.outcome = "threw")

\* a compile failure was reported without a throw, and buildEnd then threw on
\* the artifact that is not there
C13_Witness ==
  /\ bs = "resolved"
  /\ \E i \in Entries : CompileFailed(i) /\ st[i] = "failed"
  /\ last.hook = "buildEnd"
  /\ last.outcome = "threw"


\* what the constructor is to derive for a location, from the location alone
NameOf(P) == LastSegment(PathResolve(P))
FileOf(P) == NameOf(P) \o BgWasm
DiskPathOf(P) == Append(Append(CacheRoot, NameOf(P)), FileOf(P))

\* C14: for every registered location P the tables give the name that is the
\* last segment of P's resolved absolute path, the filename name + "_bg.wasm"
\* and the disk path <cacheRoot>/<name>/<filename>, whatever else is in the
\* list and wherever P stands in it.
C14_DerivedValues ==
  \A i \in 1..registered :
    LET P == cratePaths[i]
    IN /\ MapGet(cratePathLookup, P) = FileOf(P)
       /\ MapGet(crateNameLookup, NameOf(P)) = FileOf(P)
       /\ MapGet(wasmMap, FileOf(P)) = [path |-> DiskPathOf(P), name |-> NameOf(P),
                                        defined |-> TRUE]

\* '.' has been registered in second place, after a location of another name,
\* and its name is that of the working directory
C14_Witness ==
  /\ registered >= 2
  /\ cratePaths[2] = <<".">>
  /\ NameOf(cratePaths[1]) # NameOf(cratePaths[2])
  /\ MapGet(wasmMap, MapGet(cratePathLookup, <<".">>)).name = LastSegment(Cwd)


\* C15: once the plugin is constructed, no call of configResolved, resolveId,
\* load, buildStart, the middleware or buildEnd, and no step of a running
\* buildStart, changes the registered list or any of the three lookup tables.
C15_TablesFrozen ==
  [][UNCHANGED << cratePaths, wasmMap, cratePathLookup, crateNameLookup >>]_vars

\* configResolved, a buildStart that compiled two packages, and buildEnd have
\* been called, and the tables still hold what the constructor wrote
C15_Witness ==
  /\ config_base # "unset"
  /\ bs = "resolved"
  /\ Len(execLog) = 2
  /\ last.hook = "buildEnd"
  /\ Len(wasmMap) = 2
  /\ wasmMap = Register(EmptyMaps, cratePaths, 1).wasmMap


\* child processes that the pass has started for entry i
ExecsOf(i) == { k \in 1..Len(execLog) : execLog[k].entry = i }

\* C16: in a pass the compiler is started at most once for an entry, also after
\* the entry has failed; a pass that has returned with no failure has started
\* it exactly once for every entry, and entries of one derived name were each
\* compiled into one and the same output directory.
C16_OncePerEntry ==
  /\ \A i \in Entries : Cardinality(ExecsOf(i)) <= 1
  /\ (bs = "resolved" /\ errors = <<>>) =>
       /\ \A i \in Entries : Cardinality(ExecsOf(i)) = 1
       /\ Len(execLog) = Len(cratePaths)
       /\ \A k, l \in 1..Len(execLog) :
            CrateName(cratePaths[execLog[k].entry]) = CrateName(cratePaths[execLog[l].entry])
              => execLog[k].proc.outDir = execLog[l].proc.outDir

\* a pass without failure over two locations of one derived name has compiled twice
C16_Witness ==
  /\ bs = "resolved"
  /\ errors = <<>>
  /\ Len(cratePaths) = 2
  /\ CrateName(cratePaths[1]) = CrateName(cratePaths[2])
  /\ Len(execLog) = 2
  /\ execLog[1].proc.outDir = execLog[2].proc.outDir


\* the keys of a table, and whether each key has one entry
Keys(m) == { m[k][1] : k \in 1..Len(m) }
OneEntryPerKey(m) == Cardinality(Keys(m)) = Len(m)

\* C18: when the constructor has visited the whole list, for each location p
\* the location table and the name table give the same filename, that filename
\* is a key of the artifact table, and its entry holds name(p) and
\* <cacheRoot>/name(p)/<filename>; the artifact table and the name table have
\* one entry for each distinct derived name, colliding names included.
C18_TablesConsistent ==
  registered = Len(cratePaths) =>
    /\ \A i \in Entries :
         LET p == cratePaths[i]
             wasmFile == MapGet(cratePathLookup, p)
         IN /\ MapHas(cratePathLookup, p)
            /\ MapHas(crateNameLookup, CrateName(p))
            /\ wasmFile = MapGet(crateNameLookup, CrateName(p))
            /\ MapHas(wasmMap, wasmFile)
            /\ MapGet(wasmMap, wasmFile).name = CrateName(p)
            /\ MapGet(wasmMap, wasmFile).path = Append(Append(CacheRoot, CrateName(p)), wasmFile)
    /\ OneEntryPerKey(wasmMap) /\ OneEntryPerKey(crateNameLookup)
    /\ Keys(crateNameLookup) = DerivedNames
    /\ Keys(wasmMap) = { n \o BgWasm : n \in DerivedNames }

\* three different locations, two of them with one derived name, are registered
C18_Witness ==
  /\ registered = 3
  /\ Len(cratePaths) = 3
  /\ Len(cratePathLookup) = 3
  /\ CrateName(cratePaths[1]) = CrateName(cratePaths[3])
  /\ Len(wasmMap) = 2
  /\ Len(crateNameLookup) = 2


\* what follows the marker prefix in a prefixed id
Rest(id) == SubSeq(id, Len(prefix) + 1, Len(id))

\* C19: a load of any id that starts with the marker prefix has read
\* <cacheRoot>/<rest>/<rest>.js, and has returned the file or thrown, whether
\* or not <rest> is a registered name; every id resolveId returns is such an id.
C19_LoadIgnoresRegistry ==
  /\ (last.hook = "load" /\ StartsWith(last.arg, prefix)) =>
       LET glue == Append(Append(CacheRoot, Rest(last.arg)), Rest(last.arg) \o DotJs)
       IN /\ last.reads = { glue }
          /\ IF ReadFile(disk, glue).kind = "missing"
             THEN last.outcome = "threw"
             ELSE last.outcome = "value" /\ last.file = ReadFile(disk, glue)
  /\ \A id \in ResolveIds :
       ResolveIdResult(id).outcome = "value" => StartsWith(ResolveIdResult(id).value, prefix)

\* load has returned the glue code of a package that is not registered
C19_Witness ==
  /\ last.hook = "load"
  /\ StartsWith(last.arg, prefix)
  /\ ~MapHas(crateNameLookup, Rest(last.arg))
  /\ ResolveIdResult(Rest(last.arg)).outcome = "null"
  /\ last.outcome = "value"

====
